---- MODULE Spec2Model ----
(***************************************************************************)
(* DeepScanRx analytics assistant: the query pipeline of the Express       *)
(* server (ai-agent.cjs driven by server/index.cjs), the serverless chat   *)
(* and report functions, and the local mock API.                           *)
(*                                                                         *)
(* Text is modelled as a sequence of chunks.  A chunk is one character     *)
(* ("i", " ", "\n") or an opaque literal fragment that contains no         *)
(* whitespace at its ends and no upper-case keyword letters.  The empty    *)
(* string is <<>>.  An optional value (a JS field that may be undefined)   *)
(* is a sequence of length 0 (absent) or 1 (present).                      *)
(* Timestamps and conversation ids (clock and random values) are left out  *)
(* of turns and responses.                                                 *)
(***************************************************************************)
EXTENDS Integers, Sequences, FiniteSets, TLC

\* Number of requests one run of a backend receives.
MaxRequests == 2

Absent == <<>>
Some(x) == <<x>>

----------------------------------------------------------------------------
\* String primitives of the JavaScript runtime

WhiteSpace == {" ", "\t", "\n"}

RECURSIVE trimStart(_)
trimStart(s) ==
  IF s = <<>> THEN s
  ELSE IF Head(s) \in WhiteSpace THEN trimStart(Tail(s)) ELSE s

RECURSIVE trimEnd(_)
trimEnd(s) ==
  IF s = <<>> THEN s
  ELSE IF s[Len(s)] \in WhiteSpace THEN trimEnd(SubSeq(s, 1, Len(s) - 1)) ELSE s

\* String.prototype.trim
trim(s) == trimEnd(trimStart(s))

UpperLetters == <<"A","B","C","D","E","F","G","H","I","J","K","L","M",
                  "N","O","P","Q","R","S","T","U","V","W","X","Y","Z">>
LowerLetters == <<"a","b","c","d","e","f","g","h","i","j","k","l","m",
                  "n","o","p","q","r","s","t","u","v","w","x","y","z">>

lowerChar(c) ==
  IF \E i \in DOMAIN UpperLetters : UpperLetters[i] = c
  THEN LowerLetters[CHOOSE i \in DOMAIN UpperLetters : UpperLetters[i] = c]
  ELSE c

\* String.prototype.toLowerCase
toLowerCase(s) == [i \in 1..Len(s) |-> lowerChar(s[i])]

\* String.prototype.includes
includes(s, k) ==
  \E i \in 0..(Len(s) - Len(k)) : SubSeq(s, i + 1, i + Len(k)) = k

RECURSIVE join(_, _)
\* Array.prototype.join
join(lines, sep) ==
  IF lines = <<>> THEN <<>>
  ELSE IF Len(lines) = 1 THEN lines[1]
  ELSE lines[1] \o sep \o join(Tail(lines), sep)

\* Mutant: slice(0, n), the oldest n elements.
sliceFirst(seq, n) ==
  IF Len(seq) <= n THEN seq ELSE SubSeq(seq, 1, n)

\* Array.prototype.slice(-n)
sliceLast(seq, n) ==
  IF Len(seq) <= n THEN seq ELSE SubSeq(seq, Len(seq) - n + 1, Len(seq))

----------------------------------------------------------------------------
\* Inputs

\* A parsed request body: {message} may be missing.
NoMessageBody == [kind |-> "nomessage", message |-> <<>>]
MessageBody(m) == [kind |-> "message", message |-> m]
MalformedBody == [kind |-> "malformed", message |-> <<>>]

\* JavaScript `!message` for a message that is undefined or a string.
notMessage(body) == body.kind # "message" \/ body.message = <<>>

\* Mutant: the check without the trim.
messageIsEmptyNoTrim(body) == notMessage(body)

\* `!message || message.trim() === ''`
messageIsEmpty(body) == notMessage(body) \/ trim(body.message) = <<>>

BlankMessages == {<<>>, <<" ">>, <<" ", "\t", "\n">>}

\* Messages sent to the Express chat route (their text is opaque to it).
ChatMessages ==
  BlankMessages \cup {<<" ","l","o","w"," ","s","t","o","c","k","?">>}

\* Messages sent to the keyword-matching fallbacks.
KeywordMessages ==
  BlankMessages \cup
  { <<"h","i">>,
    <<"i","n","v","e","n","t","o","r","y">>,
    <<"I","N","V","E","N","T","O","R","Y">>,
    <<"m","y"," ","I","n","v","e","n","t","o","r","y","!">>,
    <<"i","n","v","e","n","t","o","r">>,
    <<"p","a","t","i","e","n","t"," ","i","n","v","e","n","t","o","r","y">>,
    <<"P","a","t","i","e","n","t","s">>,
    <<"c","o","s","t"," ","p","a","t","i","e","n","t">>,
    <<"C","O","S","T","?">>,
    <<"p","r","e","d","i","c","t"," ","c","o","s","t">>,
    <<"P","r","e","d","i","c","t">> }

\* What an external-model call can come back with: the promise rejects, or
\* resolves with message.content null or a string.
Reject(msg) == [kind |-> "reject", text |-> msg]
NullContent == [kind |-> "null", text |-> <<>>]
Content(s) == [kind |-> "content", text |-> s]

ModelErrors == {<<"Connection error.">>}

GenerationOutcomes ==
  {Reject(e) : e \in ModelErrors} \cup {NullContent} \cup
  {Content(<<"\n", "import sqlite3; print(1)", "\n">>)}

SynthesisOutcomes ==
  {Reject(e) : e \in ModelErrors} \cup {NullContent} \cup
  {Content(<<"Two items are below the reorder point.", "\n">>)}

\* What PythonShell.run hands to its callback: (err) or (null, results) with
\* results undefined or the array of stdout lines.
RunError(msg) == [kind |-> "err", lines |-> Absent, text |-> msg]
RunOk(optLines) == [kind |-> "ok", lines |-> optLines, text |-> <<>>]

RunOutcomes ==
  { RunError(<<"Traceback: exit code 1">>),
    RunOk(Absent),
    RunOk(Some(<< <<"{\"ok\":true}">>, <<"done">> >>)) }

WriteErrors == {<<"ENOSPC: no space left on device">>}

NullTrimError == <<"Cannot read properties of null (reading 'trim')">>
UnlinkError == <<"ENOENT: no such file or directory, unlink">>

----------------------------------------------------------------------------
\* State

VARIABLES
  backend,              \* which deployment serves this run
  apiKey,               \* process.env.OPENAI_API_KEY is set
  conversationHistory,  \* DeepScanRxAgent.conversationHistory
  files,                \* generated_scripts: script id -> file content
  usedIds,              \* script ids uuidv4 has handed out
  reqs,                 \* the requests of this run, by arrival number
  clearedIdle,          \* history cleared with no query in flight, none accepted since
  serial,               \* no query has started while another was in flight
  uuidStub,             \* uuidv4 is stubbed to hand out one fixed identifier
  db                    \* the database tables: inventory and patients

vars == <<backend, apiKey, conversationHistory, files, usedIds, reqs, clearedIdle, serial,
          uuidStub, db>>

Backends == {"express", "netlify", "local", "legacy"}
Reqs == 1..MaxRequests
ScriptIds == 1..MaxRequests

\* The tables before anything is uploaded.
EmptyDb == [inventory |-> <<>>, patients |-> <<>>]

NoResponse ==
  [status |-> 0, error |-> FALSE, text |-> Absent, action |-> "absent",
   suggestions |-> <<>>, pythonCode |-> Absent, analysisResults |-> Absent,
   history |-> Absent, analytics |-> Absent, recordsProcessed |-> Absent]

NewRequest ==
  [pc |-> "new", route |-> "none", method |-> "none", body |-> NoMessageBody,
   query |-> <<>>, pythonCode |-> Absent, scriptId |-> 0, hang |-> FALSE,
   results |-> Absent, stdout |-> Absent, context |-> <<>>, modelCalls |-> 0, fetches |-> 0, failed |-> "none",
   afterIdleClear |-> FALSE, items |-> <<>>, successCount |-> 0,
   errors |-> <<>>, attempts |-> <<>>, resp |-> NoResponse]

Init ==
  /\ backend \in Backends
  /\ apiKey \in BOOLEAN
  /\ conversationHistory = <<>>
  /\ files = <<>>
  /\ usedIds = {}
  /\ reqs = [r \in Reqs |-> NewRequest]
  /\ clearedIdle = FALSE
  /\ serial = TRUE
  /\ uuidStub = FALSE
  /\ db = EmptyDb

\* Requests arrive in order of their number.
Arrives(r) ==
  /\ reqs[r].pc = "new"
  /\ \A q \in Reqs : q < r => reqs[q].pc # "new"

InFlight(r) == reqs[r].pc \in {"generating", "executing", "synthesizing"}

\* The external model rejects every call made with the placeholder key.
AuthError == <<"401 Incorrect API key provided: your-ope*************here">>
Outcomes(set) == IF apiKey THEN set ELSE {Reject(AuthError)}

----------------------------------------------------------------------------
\* ai-agent.cjs: DeepScanRxAgent

UserTurn(userQuery) ==
  [role |-> "user", content |-> userQuery,
   pythonCode |-> Absent, results |-> Absent]

\* Mutant: Array.prototype.unshift, the turn goes to the front.
unshift(history, turn) == <<turn>> \o history

\* `this.conversationHistory.push({...})`
push(history, turn) == Append(history, turn)

\* Number of turns of the history that a prompt quotes.
RecentTurns == 4

\* `${msg.role}: ${msg.content}`
contextLine(msg) == <<msg.role, ": ">> \o msg.content

\* `this.conversationHistory.slice(-4).map(...).join('\n')`
recentContext(history) ==
  LET recent == sliceLast(history, RecentTurns)
  IN join([i \in 1..Len(recent) |-> contextLine(recent[i])], <<"\n">>)

\* Mutant: an assistant turn recorded without the execution output.
AssistantTurnCodeOnly(response, pythonCode, results) ==
  [role |-> "assistant", content |-> response,
   pythonCode |-> Some(pythonCode), results |-> Absent]

AssistantTurn(response, pythonCode, results) ==
  [role |-> "assistant", content |-> response,
   pythonCode |-> Some(pythonCode), results |-> Some(results)]

\* The value processQuery resolves to after all three stages.
QueryResult(response, pythonCode, results) ==
  [response |-> response, error |-> FALSE,
   pythonCode |-> Some(pythonCode), results |-> Some(results)]

\* Mutant: a catch block that forgets the error flag.
ErrorResultNoFlag(message) ==
  [response |-> <<"I encountered an error while processing your query: ">> \o message,
   error |-> FALSE, pythonCode |-> Absent, results |-> Absent]

\* The value processQuery resolves to from its catch block.
ErrorResult(message) ==
  [response |-> <<"I encountered an error while processing your query: ">> \o message,
   error |-> TRUE, pythonCode |-> Absent, results |-> Absent]

\* uuidv4(): an identifier never handed out before.
uuidv4(used) == CHOOSE id \in ScriptIds : id \notin used /\ \A j \in ScriptIds \ used : id <= j

\* The identifier a stubbed uuidv4 hands out to every call.
stubbedId == CHOOSE id \in ScriptIds : \A j \in ScriptIds : id <= j

\* `const scriptId = uuidv4()`
newScriptId(used) == IF uuidStub THEN stubbedId ELSE uuidv4(used)

\* Mutant: the script file is created but its text is not written.
writeFileEmpty(fs, id, text) ==
  [i \in (DOMAIN fs) \cup {id} |-> IF i = id THEN <<>> ELSE fs[i]]

writeFile(fs, id, text) ==
  [i \in (DOMAIN fs) \cup {id} |-> IF i = id THEN text ELSE fs[i]]

unlink(fs, id) == [i \in (DOMAIN fs) \ {id} |-> fs[i]]

\* Mutant: a catch block that rethrows without removing the script.
cleanupOnErrorLeak(fs, id) == fs

\* executePythonCode, catch block: remove the script if it is there.
cleanupOnError(fs, id) == IF id \in DOMAIN fs THEN unlink(fs, id) ELSE fs

\* Mutant: only the first line of the output is kept.
runResultsFirstLine(optLines) ==
  IF optLines = Absent \/ optLines[1] = <<>> THEN <<>> ELSE optLines[1][1]

\* `results ? results.join('\n') : ''`
runResults(optLines) ==
  IF optLines = Absent THEN <<>> ELSE join(optLines[1], <<"\n">>)

\* The error message with which the completion is unusable or rejected, or
\* Absent when message.content.trim() succeeds.
completionError(outcome) ==
  CASE outcome.kind = "reject" -> Some(outcome.text)
    [] outcome.kind = "null" -> Some(NullTrimError)
    [] OTHER -> Absent

----------------------------------------------------------------------------
\* server/index.cjs: routes of the Express server

Suggestions5 ==
  << "Analyze low stock items", "Predict drug demand trends",
     "Find cost-saving opportunities", "Generate comprehensive report",
     "Show patient medication patterns" >>

BadRequest == [NoResponse EXCEPT !.status = 400, !.error = TRUE]

\* res.json of POST /api/assistant/chat
ChatResponse(result) ==
  [NoResponse EXCEPT
     !.status = 200,
     !.text = Some(result.response),
     !.action = IF result.error THEN "null" ELSE "analysis_complete",
     !.suggestions = Suggestions5,
     !.pythonCode = result.pythonCode,
     !.analysisResults = result.results]

\* res.json of POST /api/generate-report
ReportResponse(result) ==
  [NoResponse EXCEPT
     !.status = 200,
     !.text = Some(result.response),
     !.pythonCode = result.pythonCode,
     !.analysisResults = result.results]

RouteResponse(route, result) ==
  IF route = "chat" THEN ChatResponse(result) ELSE ReportResponse(result)

\* Mutant: a report route that sends an empty query.
reportQueryEmpty == <<>>

reportQuery ==
  <<"Generate a comprehensive healthcare analytics report covering: ...">>

\* processQuery up to its first await: the user turn is pushed and the
\* generation request is sent.
ProcessQueryStart(r, route, body, userQuery) ==
  /\ conversationHistory' = push(conversationHistory, UserTurn(userQuery))
  /\ reqs' = [reqs EXCEPT ![r] =
       [@ EXCEPT !.pc = "generating", !.route = route, !.method = "POST",
                 !.body = body, !.query = userQuery,
                 !.context = recentContext(conversationHistory'),
                 !.modelCalls = @ + 1]]
  /\ clearedIdle' = FALSE
  /\ serial' = (serial /\ \A q \in Reqs : ~InFlight(q))
  /\ UNCHANGED <<files, usedIds>>

\* Mutant: a catch block whose promise never resolves.
QueryFailsPending(r, stage, message) ==
  reqs' = [reqs EXCEPT ![r] =
    [@ EXCEPT !.failed = stage,
              !.resp = RouteResponse(reqs[r].route, ErrorResult(message))]]

\* processQuery's catch block resolves, and the route answers.
QueryFails(r, stage, message) ==
  reqs' = [reqs EXCEPT ![r] =
    [@ EXCEPT !.pc = "done", !.failed = stage, !.context = <<>>,
              !.resp = RouteResponse(reqs[r].route, ErrorResult(message))]]

\* POST /api/assistant/chat
ChatRequest(r, body) ==
  /\ backend = "express"
  /\ Arrives(r)
  /\ IF messageIsEmpty(body)
     THEN /\ reqs' = [reqs EXCEPT ![r] =
               [@ EXCEPT !.pc = "done", !.route = "chat", !.method = "POST",
                         !.body = body, !.resp = BadRequest]]
          /\ UNCHANGED <<conversationHistory, files, usedIds, clearedIdle, serial>>
     ELSE ProcessQueryStart(r, "chat", body, body.message)
  /\ UNCHANGED <<db, uuidStub, backend, apiKey>>

\* POST /api/generate-report
ReportRequest(r) ==
  /\ backend = "express"
  /\ Arrives(r)
  /\ ProcessQueryStart(r, "report", NoMessageBody, reportQuery)
  /\ UNCHANGED <<db, uuidStub, backend, apiKey>>

\* GET /api/assistant/history
HistoryRequest(r) ==
  /\ backend = "express"
  /\ Arrives(r)
  /\ reqs' = [reqs EXCEPT ![r] =
       [@ EXCEPT !.pc = "done", !.route = "history", !.method = "GET",
                 !.afterIdleClear = clearedIdle,
                 !.resp = [NoResponse EXCEPT !.status = 200,
                                             !.history = Some(conversationHistory)]]]
  /\ UNCHANGED <<db, uuidStub, backend, apiKey, conversationHistory, files, usedIds, clearedIdle, serial>>

\* Mutant: a clear that keeps the latest turn.
clearHistoryKeepsLast(history) == sliceLast(history, 1)

\* DeepScanRxAgent.clearHistory
clearHistory(history) == <<>>

\* POST /api/assistant/clear
ClearRequest(r) ==
  /\ backend = "express"
  /\ Arrives(r)
  /\ conversationHistory' = clearHistory(conversationHistory)
  /\ clearedIdle' = (\A q \in Reqs : ~InFlight(q))
  /\ reqs' = [reqs EXCEPT ![r] =
       [@ EXCEPT !.pc = "done", !.route = "clear", !.method = "POST",
                 !.resp = [NoResponse EXCEPT !.status = 200]]]
  /\ UNCHANGED <<db, uuidStub, backend, apiKey, files, usedIds, serial>>

\* generatePythonCode returns or throws; on success executePythonCode runs
\* up to its await: the script is written and the runner launched.
GenerationReturns(r, outcome, writeFails, partial, hangs) ==
  /\ backend = "express"
  /\ reqs[r].pc = "generating"
  /\ outcome \in Outcomes(GenerationOutcomes)
  /\ IF completionError(outcome) # Absent
     THEN /\ QueryFails(r, "generation", completionError(outcome)[1])
          /\ UNCHANGED <<files, usedIds>>
     ELSE LET pythonCode == trim(outcome.text)
              scriptId == newScriptId(usedIds)
          IN /\ usedIds' = usedIds \cup {scriptId}
             /\ IF writeFails
                THEN \* writeFileSync throws; the file may have been created
                     LET left == IF partial THEN writeFile(files, scriptId, <<>>)
                                 ELSE files
                     IN /\ files' = cleanupOnError(left, scriptId)
                        /\ \E e \in WriteErrors :
                             reqs' = [reqs EXCEPT ![r] =
                               [@ EXCEPT !.pc = "done", !.failed = "execution",
                                         !.context = <<>>,
                                         !.pythonCode = Some(pythonCode),
                                         !.scriptId = scriptId,
                                         !.resp = RouteResponse(reqs[r].route,
                                                                ErrorResult(e))]]
                ELSE /\ files' = writeFile(files, scriptId, pythonCode)
                     /\ reqs' = [reqs EXCEPT ![r] =
                          [@ EXCEPT !.pc = "executing",
                                    !.context = <<>>,
                                    !.pythonCode = Some(pythonCode),
                                    !.scriptId = scriptId,
                                    !.hang = hangs]]
  /\ UNCHANGED <<db, uuidStub, backend, apiKey, conversationHistory, clearedIdle, serial>>

\* The PythonShell.run callback fires: executePythonCode returns or throws,
\* and on success generateResponse sends the synthesis request.
ExecutionReturns(r, outcome) ==
  /\ backend = "express"
  /\ reqs[r].pc = "executing"
  /\ ~reqs[r].hang
  /\ outcome \in RunOutcomes
  /\ LET scriptId == reqs[r].scriptId
     IN IF outcome.kind = "err"
        THEN /\ files' = cleanupOnError(files, scriptId)
             /\ QueryFails(r, "execution", outcome.text)
        ELSE IF scriptId \in DOMAIN files
        THEN /\ files' = unlink(files, scriptId)
             /\ reqs' = [reqs EXCEPT ![r] =
                  [@ EXCEPT !.pc = "synthesizing",
                            !.results = Some(runResults(outcome.lines)),
                            !.stdout = outcome.lines,
                            !.context = recentContext(conversationHistory),
                            !.modelCalls = @ + 1]]
        ELSE \* unlinkSync throws ENOENT
             /\ files' = cleanupOnError(files, scriptId)
             /\ QueryFails(r, "execution", UnlinkError)
  /\ UNCHANGED <<db, uuidStub, backend, apiKey, conversationHistory, usedIds, clearedIdle, serial>>

\* generateResponse returns or throws; on success the assistant turn is
\* pushed and the route answers.
SynthesisReturns(r, outcome) ==
  /\ backend = "express"
  /\ reqs[r].pc = "synthesizing"
  /\ outcome \in Outcomes(SynthesisOutcomes)
  /\ IF completionError(outcome) # Absent
     THEN /\ QueryFails(r, "synthesis", completionError(outcome)[1])
          /\ UNCHANGED conversationHistory
     ELSE LET response == trim(outcome.text)
              pythonCode == reqs[r].pythonCode[1]
              results == reqs[r].results[1]
          IN /\ conversationHistory' =
                  push(conversationHistory,
                       AssistantTurn(response, pythonCode, results))
             /\ reqs' = [reqs EXCEPT ![r] =
                  [@ EXCEPT !.pc = "done", !.context = <<>>,
                            !.resp = RouteResponse(reqs[r].route,
                                       QueryResult(response, pythonCode, results))]]
  /\ UNCHANGED <<db, uuidStub, backend, apiKey, files, usedIds, clearedIdle, serial>>

ExpressNext ==
  \/ \E r \in Reqs, m \in ChatMessages : ChatRequest(r, MessageBody(m))
  \/ \E r \in Reqs : ChatRequest(r, NoMessageBody)
  \/ \E r \in Reqs : ReportRequest(r)
  \/ \E r \in Reqs : HistoryRequest(r)
  \/ \E r \in Reqs : ClearRequest(r)
  \/ \E r \in Reqs, o \in GenerationOutcomes \cup {Reject(AuthError)},
        w, p, h \in BOOLEAN : GenerationReturns(r, o, w, p, h)
  \/ \E r \in Reqs, o \in RunOutcomes : ExecutionReturns(r, o)
  \/ \E r \in Reqs, o \in SynthesisOutcomes \cup {Reject(AuthError)} :
        SynthesisReturns(r, o)

----------------------------------------------------------------------------
\* netlify/functions/ai-chat.ts: the serverless chat handler

Methods == {"OPTIONS", "GET", "POST"}

MockDefaultText == <<"I'm analyzing your request...">>
MockInventoryText ==
  <<"Based on your current inventory data, I recommend focusing on drugs with low stock levels. Would you like me to generate a detailed inventory optimization report?">>
MockPatientText ==
  <<"I can help analyze patient data patterns. What specific insights are you looking for regarding patient medications or outcomes?">>
MockCostText ==
  <<"Cost analysis shows potential savings through better inventory management. I can generate a cost optimization analysis if needed.">>
MockPredictText ==
  <<"Predictive analytics indicate seasonal variations in drug demand. I can create forecasting models based on your historical data.">>

KwInventory == <<"i","n","v","e","n","t","o","r","y">>
KwPatient == <<"p","a","t","i","e","n","t">>
KwCost == <<"c","o","s","t">>
KwPredict == <<"p","r","e","d","i","c","t">>

\* Mutant: the chain matching the message as typed, without toLowerCase.
mockResponseCaseSensitive(message) ==
  IF includes(message, KwInventory) THEN MockInventoryText
  ELSE IF includes(message, KwPatient) THEN MockPatientText
  ELSE IF includes(message, KwCost) THEN MockCostText
  ELSE IF includes(message, KwPredict) THEN MockPredictText
  ELSE MockDefaultText

\* The if / else-if chain of the mock branch.
mockResponse(message) ==
  IF includes(toLowerCase(message), KwInventory) THEN MockInventoryText
  ELSE IF includes(toLowerCase(message), KwPatient) THEN MockPatientText
  ELSE IF includes(toLowerCase(message), KwCost) THEN MockCostText
  ELSE IF includes(toLowerCase(message), KwPredict) THEN MockPredictText
  ELSE MockDefaultText

AiSuggestions5 ==
  << "Show me inventory optimization opportunities",
     "Predict drug demand for next quarter",
     "Find cost-saving opportunities in my data",
     "Generate a comprehensive analytics report",
     "Analyze patient medication patterns" >>

Suggestions3 ==
  << "Show inventory summary", "List recent uploads", "Display basic statistics" >>

OptionsResponse == [NoResponse EXCEPT !.status = 200]
MethodNotAllowed == [NoResponse EXCEPT !.status = 405, !.error = TRUE]

\* The mock branch's return value.
AiChatMockResponse(message) ==
  [NoResponse EXCEPT !.status = 200, !.text = Some(mockResponse(message)),
                     !.action = "analysis_complete", !.suggestions = Suggestions5]

\* The return value after the completion.
AiChatOkResponse(text) ==
  [NoResponse EXCEPT !.status = 200, !.text = Some(text),
                     !.action = "analysis_complete", !.suggestions = AiSuggestions5]

\* The catch block's return value.
AiChatCatchResponse(message) ==
  [NoResponse EXCEPT
     !.status = 500,
     !.text = Some(<<"I'm currently experiencing technical difficulties: ">> \o message
                     \o <<". Please try a simpler query or check back later.">>),
     !.action = "null", !.suggestions = Suggestions3, !.error = TRUE]

JsonParseError == <<"Unexpected token in JSON">>
AiChatSorry == <<"I'm sorry, I couldn't process your request.">>
ReportFailedText == <<"Report generation failed">>

\* `content?.trim() || fallback`
trimOr(outcome, fallback) ==
  IF outcome.kind = "null" \/ trim(outcome.text) = <<>> THEN fallback
  ELSE trim(outcome.text)

FnOutcomes ==
  {Reject(e) : e \in ModelErrors} \cup {NullContent} \cup
  {Content(<<" ">>), Content(<<"Reorder insulin this week.", "\n">>)}

Answer(r, route, method, body, response) ==
  reqs' = [reqs EXCEPT ![r] =
    [@ EXCEPT !.pc = "done", !.route = route, !.method = method,
              !.body = body, !.resp = response]]

\* The handler up to its first await.
AiChatRequest(r, method, body) ==
  /\ backend = "netlify"
  /\ Arrives(r)
  /\ IF method = "OPTIONS" THEN Answer(r, "ai-chat", method, body, OptionsResponse)
     ELSE IF method # "POST" THEN Answer(r, "ai-chat", method, body, MethodNotAllowed)
     ELSE IF body.kind = "malformed"
       THEN Answer(r, "ai-chat", method, body, AiChatCatchResponse(JsonParseError))
     ELSE IF messageIsEmpty(body) THEN Answer(r, "ai-chat", method, body, BadRequest)
     ELSE IF ~apiKey
       THEN Answer(r, "ai-chat", method, body, AiChatMockResponse(body.message))
     ELSE reqs' = [reqs EXCEPT ![r] =
            [@ EXCEPT !.pc = "fetching", !.route = "ai-chat", !.method = method,
                      !.body = body, !.query = body.message, !.fetches = @ + 1]]
  /\ UNCHANGED <<db, uuidStub, backend, apiKey, conversationHistory, files, usedIds, clearedIdle, serial>>

\* The two table reads return (data or null); the completion request is sent.
AiChatFetchReturns(r) ==
  /\ backend = "netlify"
  /\ reqs[r].pc = "fetching"
  /\ reqs[r].route = "ai-chat"
  /\ reqs' = [reqs EXCEPT ![r] =
       [@ EXCEPT !.pc = "awaitModel", !.fetches = @ + 1, !.modelCalls = @ + 1]]
  /\ UNCHANGED <<db, uuidStub, backend, apiKey, conversationHistory, files, usedIds, clearedIdle, serial>>

\* The completion resolves or rejects.
AiChatModelReturns(r, outcome) ==
  /\ backend = "netlify"
  /\ reqs[r].pc = "awaitModel"
  /\ reqs[r].route = "ai-chat"
  /\ outcome \in FnOutcomes
  /\ reqs' = [reqs EXCEPT ![r] =
       [@ EXCEPT !.pc = "done",
                 !.failed = IF outcome.kind = "reject" THEN "model" ELSE "none",
                 !.resp = IF outcome.kind = "reject"
                          THEN AiChatCatchResponse(outcome.text)
                          ELSE AiChatOkResponse(trimOr(outcome, AiChatSorry))]]
  /\ UNCHANGED <<db, uuidStub, backend, apiKey, conversationHistory, files, usedIds, clearedIdle, serial>>

----------------------------------------------------------------------------
\* The serverless report handler

BasicReport == <<"# DeepScanRx Healthcare Analytics Report ... (basic report without AI)">>

ReportFnResponse(report) == [NoResponse EXCEPT !.status = 200, !.text = Some(report)]

ReportFnCatchResponse(message) == [NoResponse EXCEPT !.status = 500, !.error = TRUE]

\* The handler up to its first await.
ReportFnRequest(r, method) ==
  /\ backend = "netlify"
  /\ Arrives(r)
  /\ IF method = "OPTIONS"
       THEN Answer(r, "generate-report", method, NoMessageBody, OptionsResponse)
     ELSE IF method # "POST"
       THEN Answer(r, "generate-report", method, NoMessageBody, MethodNotAllowed)
     ELSE reqs' = [reqs EXCEPT ![r] =
            [@ EXCEPT !.pc = "fetching", !.route = "generate-report",
                      !.method = method, !.fetches = @ + 1]]
  /\ UNCHANGED <<db, uuidStub, backend, apiKey, conversationHistory, files, usedIds, clearedIdle, serial>>

\* The two table reads return; without a client the basic report is
\* answered, otherwise the completion request is sent.
ReportFnFetchReturns(r) ==
  /\ backend = "netlify"
  /\ reqs[r].pc = "fetching"
  /\ reqs[r].route = "generate-report"
  /\ reqs' = [reqs EXCEPT ![r] =
       IF ~apiKey
       THEN [@ EXCEPT !.pc = "done", !.fetches = @ + 1,
                      !.resp = ReportFnResponse(BasicReport)]
       ELSE [@ EXCEPT !.pc = "awaitModel", !.fetches = @ + 1, !.modelCalls = @ + 1]]
  /\ UNCHANGED <<db, uuidStub, backend, apiKey, conversationHistory, files, usedIds, clearedIdle, serial>>

\* The completion resolves or rejects.
ReportFnModelReturns(r, outcome) ==
  /\ backend = "netlify"
  /\ reqs[r].pc = "awaitModel"
  /\ reqs[r].route = "generate-report"
  /\ outcome \in FnOutcomes
  /\ reqs' = [reqs EXCEPT ![r] =
       [@ EXCEPT !.pc = "done",
                 !.failed = IF outcome.kind = "reject" THEN "model" ELSE "none",
                 !.resp = IF outcome.kind = "reject"
                          THEN ReportFnCatchResponse(outcome.text)
                          ELSE ReportFnResponse(trimOr(outcome, ReportFailedText))]]
  /\ UNCHANGED <<db, uuidStub, backend, apiKey, conversationHistory, files, usedIds, clearedIdle, serial>>

NetlifyNext ==
  \/ \E r \in Reqs, msg \in KeywordMessages :
        AiChatRequest(r, "POST", MessageBody(msg))
  \/ \E r \in Reqs, b \in {NoMessageBody, MalformedBody} :
        AiChatRequest(r, "POST", b)
  \/ \E r \in Reqs, m \in Methods \ {"POST"} :
        AiChatRequest(r, m, NoMessageBody)
  \/ \E r \in Reqs : AiChatFetchReturns(r)
  \/ \E r \in Reqs, o \in FnOutcomes : AiChatModelReturns(r, o)
  \/ \E r \in Reqs, m \in Methods : ReportFnRequest(r, m)
  \/ \E r \in Reqs : ReportFnFetchReturns(r)
  \/ \E r \in Reqs, o \in FnOutcomes : ReportFnModelReturns(r, o)

----------------------------------------------------------------------------
\* src/lib/localApi.ts: the mock API of local mode

LocalDefaultText == <<"I'm analyzing your request using the mock data...">>
LocalInventoryText ==
  <<"Based on your current inventory data, I can see you have 8 different medications. Lisinopril and Insulin are running low with quantities of 15 and 5 respectively. I recommend reordering these items soon.">>
LocalPatientText ==
  <<"Your patient data shows 5 patients with various conditions. The most common medications are cardiovascular drugs (Lisinopril, Atorvastatin) and diabetes medications (Metformin, Insulin). Would you like a detailed breakdown?">>
LocalCostText ==
  <<"Cost analysis shows your total inventory value is approximately $3,247. I've identified potential savings of $1,687 through bulk purchasing and reducing overstock of Metformin.">>
LocalPredictText ==
  <<"Demand prediction indicates Metformin and Lisinopril are your most frequently prescribed medications. Based on patient patterns, you should maintain higher stock levels for these drugs.">>

\* Mutant: a keyword chain that tests cost before patient.
localResponseCostFirst(message) ==
  IF includes(toLowerCase(message), KwInventory) THEN LocalInventoryText
  ELSE IF includes(toLowerCase(message), KwCost) THEN LocalCostText
  ELSE IF includes(toLowerCase(message), KwPatient) THEN LocalPatientText
  ELSE IF includes(toLowerCase(message), KwPredict) THEN LocalPredictText
  ELSE LocalDefaultText

localResponse(message) ==
  IF includes(toLowerCase(message), KwInventory) THEN LocalInventoryText
  ELSE IF includes(toLowerCase(message), KwPatient) THEN LocalPatientText
  ELSE IF includes(toLowerCase(message), KwCost) THEN LocalCostText
  ELSE IF includes(toLowerCase(message), KwPredict) THEN LocalPredictText
  ELSE LocalDefaultText

LocalSuggestions5 ==
  << "Show me low stock items", "Predict demand for cardiovascular drugs",
     "Find bulk purchase opportunities", "Analyze patient medication patterns",
     "Generate cost optimization report" >>

\* The value sendChatMessage resolves to (a direct call: no HTTP status).
LocalChatResponse(message) ==
  [NoResponse EXCEPT !.text = Some(localResponse(message)),
                     !.action = "analysis_complete",
                     !.suggestions = LocalSuggestions5]

\* localApi.sendChatMessage
SendChatMessage(r, message) ==
  /\ backend = "local"
  /\ Arrives(r)
  /\ Answer(r, "sendChatMessage", "call", MessageBody(message),
            LocalChatResponse(message))
  /\ UNCHANGED <<db, uuidStub, backend, apiKey, conversationHistory, files, usedIds, clearedIdle, serial>>

LocalNext == \E r \in Reqs, m \in KeywordMessages : SendChatMessage(r, m)

----------------------------------------------------------------------------
\* server/index.cjs, second file: the rule-based server without the agent

LegacyCostText ==
  <<"Cost analysis shows potential savings through better inventory management. I can generate a cost optimization script if needed.">>

\* The if / else-if chain of the rule-based chat route.
legacyResponse(message) ==
  IF includes(toLowerCase(message), KwInventory) THEN MockInventoryText
  ELSE IF includes(toLowerCase(message), KwPatient) THEN MockPatientText
  ELSE IF includes(toLowerCase(message), KwCost) THEN LegacyCostText
  ELSE IF includes(toLowerCase(message), KwPredict) THEN MockPredictText
  ELSE MockDefaultText

\* Express's default error handler: the route threw.
ServerError == [NoResponse EXCEPT !.status = 500]

\* POST /api/assistant/chat of the rule-based server.  Without a message
\* `message.toLowerCase()` throws a TypeError.
LegacyChatRequest(r, body) ==
  /\ backend = "legacy"
  /\ Arrives(r)
  /\ Answer(r, "legacy-chat", "POST", body,
            IF body.kind # "message" THEN ServerError
            ELSE [NoResponse EXCEPT !.status = 200,
                                    !.text = Some(legacyResponse(body.message))])
  /\ UNCHANGED <<db, uuidStub, backend, apiKey, conversationHistory, files, usedIds, clearedIdle, serial>>

LegacyNext ==
  \/ \E r \in Reqs, m \in KeywordMessages : LegacyChatRequest(r, MessageBody(m))
  \/ \E r \in Reqs : LegacyChatRequest(r, NoMessageBody)

----------------------------------------------------------------------------
Next == ExpressNext \/ NetlifyNext \/ LocalNext \/ LegacyNext

Spec == Init /\ [][Next]_vars

\* The same program with uuidv4 forced to collide.
InitStubbed ==
  /\ backend \in Backends
  /\ apiKey \in BOOLEAN
  /\ conversationHistory = <<>>
  /\ files = <<>>
  /\ usedIds = {}
  /\ reqs = [r \in Reqs |-> NewRequest]
  /\ clearedIdle = FALSE
  /\ serial = TRUE
  /\ uuidStub = TRUE
  /\ db = EmptyDb

SpecStubbed == InitStubbed /\ [][Next]_vars

\* A conversation the Express server has already had: two answered queries
\* and a third that failed.
PastTurns ==
  LET answer == <<"Two items are below the reorder point.">>
      code == <<"import sqlite3; print(1)">>
  IN << UserTurn(<<" ","l","o","w"," ","s","t","o","c","k","?">>),
        AssistantTurn(answer, code, <<>>),
        UserTurn(reportQuery),
        AssistantTurn(answer, code, <<"{\"ok\":true}">>),
        UserTurn(<<" ","l","o","w"," ","s","t","o","c","k","?">>) >>

\* The program picked up part-way through that conversation.
InitLater ==
  /\ backend \in Backends
  /\ apiKey \in BOOLEAN
  /\ conversationHistory \in
       IF backend = "express"
       THEN {SubSeq(PastTurns, 1, k) : k \in (Len(PastTurns) - 1)..Len(PastTurns)}
       ELSE {<<>>}
  /\ files = <<>>
  /\ usedIds = {}
  /\ reqs = [r \in Reqs |-> NewRequest]
  /\ clearedIdle = FALSE
  /\ serial = TRUE
  /\ uuidStub = FALSE
  /\ db = EmptyDb

SpecLater == InitLater /\ [][Next]_vars

\* Callbacks that are ready are eventually run by the event loop, and a
\* call to the external model eventually returns.
Fairness ==
  \A r \in Reqs :
    /\ WF_vars(\E o \in GenerationOutcomes \cup {Reject(AuthError)},
                  w, p, h \in BOOLEAN : GenerationReturns(r, o, w, p, h))
    /\ WF_vars(\E o \in RunOutcomes : ExecutionReturns(r, o))
    /\ WF_vars(\E o \in SynthesisOutcomes \cup {Reject(AuthError)} :
                  SynthesisReturns(r, o))

FairSpec == Spec /\ Fairness

----------------------------------------------------------------------------
\* Data handlers: inventory analytics (server/index.cjs, the serverless
\* analytics function, localApi.getInventoryAnalytics) and the serverless
\* upload function.  The handlers keep nothing between requests but the
\* tables, so one request is followed from an arbitrary table.

Item(name, quantity) == [drug_name |-> name, quantity |-> quantity]

Aspirin == <<"a","s","p","i","r","i","n">>
Insulin == <<"i","n","s","u","l","i","n">>
Metformin == <<"m","e","t","f","o","r","m","i","n">>

\* Contents of the inventory table when a request arrives.
Inventories ==
  { <<>>,
    << Item(Aspirin, 9) >>,
    << Item(Aspirin, 10), Item(Insulin, 20) >>,
    << Item(Aspirin, 5), Item(Insulin, 5) >>,
    << Item(Aspirin, 500), Item(Insulin, 501), Item(Metformin, 19) >>,
    << Item(Aspirin, 20), Item(Insulin, 500), Item(Metformin, 0) >>,
    << Item(Aspirin, 250), Item(Insulin, 9), Item(Metformin, -1) >> }

lowStockThreshold == 20
overStockThreshold == 500
localOverStockThreshold == 200

\* Mutant: a low-stock test that includes the threshold.
isLowStockInclusive(item) == item.quantity <= lowStockThreshold

\* `item.quantity < lowStockThreshold`
isLowStock(item) == item.quantity < lowStockThreshold

\* Math.max
max(a, b) == IF a >= b THEN a ELSE b

\* A JavaScript number: an integer, or NaN.
Number(n) == [isNaN |-> FALSE, value |-> n]
NaN == [isNaN |-> TRUE, value |-> 0]

\* `Math.round((n / total) * 100)` for 0 <= n <= total: NaN for 0 / 0, else
\* the nearest integer, halves rounded up.
roundPercent(n, total) ==
  IF total = 0 THEN NaN ELSE Number((200 * n + total) \div (2 * total))

\* One entry of `recommendations`.
recommendation(item) ==
  [drug |-> item.drug_name,
   current |-> item.quantity,
   recommended |-> max(item.quantity * 2, 50),
   priority |-> IF item.quantity < 10 THEN "high" ELSE "medium"]

\* The body of the inventory analytics response.
inventoryAnalytics(rows, overStock) ==
  LET isOverStock(item) == item.quantity > overStock
      isNormalStock(item) ==
        item.quantity >= lowStockThreshold /\ item.quantity <= overStock
      lowStockItems == SelectSeq(rows, isLowStock)
      overStockItems == SelectSeq(rows, isOverStock)
      normalStockItems == SelectSeq(rows, isNormalStock)
  IN [summary |-> [total_items |-> Len(rows),
                   low_stock |-> Len(lowStockItems),
                   over_stock |-> Len(overStockItems),
                   normal_stock |-> Len(normalStockItems)],
      recommendations |->
        [k \in 1..Len(lowStockItems) |-> recommendation(lowStockItems[k])],
      efficiency_score |-> roundPercent(Len(normalStockItems), Len(rows))]

\* `ORDER BY quantity ASC`: the rows of the table in some ascending order;
\* the order of rows with equal quantity is the database's choice.
orderByQuantity(table) ==
  { [k \in DOMAIN table |-> table[f[k]]] :
      f \in { g \in [DOMAIN table -> DOMAIN table] :
                /\ \A i, j \in DOMAIN table : i # j => g[i] # g[j]
                /\ \A i, j \in DOMAIN table :
                     i < j => table[g[i]].quantity <= table[g[j]].quantity } }

\* No request has been received yet.
FirstRequest(r) == Arrives(r) /\ \A q \in Reqs : reqs[q].pc = "new"

DataError == [NoResponse EXCEPT !.status = 500, !.error = TRUE]

\* GET /api/analytics/inventory-optimization, up to the db.all callback.
InventoryOptimization(r) ==
  /\ backend = "express"
  /\ FirstRequest(r)
  /\ reqs' = [reqs EXCEPT ![r] =
       [@ EXCEPT !.pc = "selecting", !.route = "inventory-optimization",
                 !.method = "GET"]]
  /\ UNCHANGED <<db, uuidStub, backend, apiKey, conversationHistory, files, usedIds, clearedIdle, serial>>

\* The serverless analytics handler, up to the await of the select.
AnalyticsInventoryFn(r, method) ==
  /\ backend = "netlify"
  /\ FirstRequest(r)
  /\ IF method = "OPTIONS"
     THEN Answer(r, "analytics-inventory", method, NoMessageBody, OptionsResponse)
     ELSE reqs' = [reqs EXCEPT ![r] =
            [@ EXCEPT !.pc = "selecting", !.route = "analytics-inventory",
                      !.method = method]]
  /\ UNCHANGED <<db, uuidStub, backend, apiKey, conversationHistory, files, usedIds, clearedIdle, serial>>

\* localApi.getInventoryAnalytics, up to `await delay(800)`.
GetInventoryAnalytics(r) ==
  /\ backend = "local"
  /\ FirstRequest(r)
  /\ reqs' = [reqs EXCEPT ![r] =
       [@ EXCEPT !.pc = "selecting", !.route = "getInventoryAnalytics",
                 !.method = "call"]]
  /\ UNCHANGED <<db, uuidStub, backend, apiKey, conversationHistory, files, usedIds, clearedIdle, serial>>

\* The rows arrive (or the query fails) and the handler answers.
SelectReturns(r, fails) ==
  /\ reqs[r].pc = "selecting"
  /\ IF reqs[r].route = "getInventoryAnalytics"
     THEN /\ ~fails
          /\ reqs' = [reqs EXCEPT ![r] =
               [@ EXCEPT !.pc = "done",
                         !.resp = [NoResponse EXCEPT !.analytics =
                           Some(inventoryAnalytics(db.inventory,
                                                   localOverStockThreshold))]]]
     ELSE IF fails
     THEN reqs' = [reqs EXCEPT ![r] = [@ EXCEPT !.pc = "done", !.resp = DataError]]
     ELSE \E rows \in orderByQuantity(db.inventory) :
            reqs' = [reqs EXCEPT ![r] =
              [@ EXCEPT !.pc = "done",
                        !.resp = [NoResponse EXCEPT
                           !.status = 200,
                           !.analytics =
                             Some(inventoryAnalytics(rows, overStockThreshold))]]]
  /\ UNCHANGED <<db, uuidStub, backend, apiKey, conversationHistory, files, usedIds, clearedIdle, serial>>

\* Rows of an uploaded CSV file, after parseCSV: the key of the row (drug
\* name or patient id) and a quantity.
UploadRows ==
  { << Item(<<>>, 5) >>,
    << Item(<<" ">>, 5), Item(<<>>, 7) >>,
    << Item(Aspirin, 40) >>,
    << Item(Aspirin, 40), Item(Metformin, 600) >>,
    << Item(<<" ">>, 5), Item(Aspirin, 40), Item(<<>>, 7), Item(Metformin, 600) >> }

\* The multipart form of an upload: missing a part, or a data type with
\* the rows of its CSV file.
NoForm == [kind |-> "invalid", dataType |-> "none", rows |-> <<>>]
Form(dataType, rows) == [kind |-> "form", dataType |-> dataType, rows |-> rows]

UploadForms ==
  {NoForm, Form("inventory", <<>>), Form("prescriptions", <<Item(Aspirin, 40)>>)}
    \cup {Form(t, rows) : t \in {"inventory", "patients"}, rows \in UploadRows}

UpsertOutcomes == {"ok", "error", "throws"}

UpsertErrorText == <<"duplicate key value violates unique constraint">>
UpsertThrowText == <<"fetch failed">>

\* Mutant: a filter that keeps names made of whitespace.
hasNameNoTrim(row) == row.drug_name # <<>>

\* `i.drug_name && i.drug_name.trim() !== ''`
hasName(row) == row.drug_name # <<>> /\ trim(row.drug_name) # <<>>

\* upsert(item, {onConflict: 'drug_name'}): the row of that name is
\* replaced, or the item is added.
upsert(table, item) ==
  IF \E k \in DOMAIN table : table[k].drug_name = item.drug_name
  THEN [k \in DOMAIN table |->
          IF table[k].drug_name = item.drug_name THEN item ELSE table[k]]
  ELSE Append(table, item)

RECURSIVE upsertAll(_, _)
\* upsert(patients, {onConflict: 'patient_id'})
upsertAll(table, items) ==
  IF items = <<>> THEN table
  ELSE upsertAll(upsert(table, Head(items)), Tail(items))

\* The 200 response of the upload handler.
UploadOk(recordsProcessed) ==
  [NoResponse EXCEPT !.status = 200, !.recordsProcessed = Some(recordsProcessed)]

\* The upload handler up to its first await.
UploadRequest(r, method, form) ==
  /\ backend = "netlify"
  /\ FirstRequest(r)
  /\ LET valid == SelectSeq(form.rows, hasName)
         answer(response) ==
           reqs' = [reqs EXCEPT ![r] =
             [@ EXCEPT !.pc = "done", !.route = "upload", !.method = method,
                       !.body = form, !.resp = response]]
         suspend(pc) ==
           reqs' = [reqs EXCEPT ![r] =
             [@ EXCEPT !.pc = pc, !.route = "upload", !.method = method,
                       !.body = form, !.items = valid]]
     IN IF method = "OPTIONS" THEN answer(OptionsResponse)
        ELSE IF method # "POST" THEN answer(MethodNotAllowed)
        ELSE IF form.kind = "invalid" \/ form.rows = <<>> THEN answer(BadRequest)
        ELSE IF form.dataType \notin {"patients", "inventory"} THEN answer(DataError)
        ELSE IF valid = <<>> THEN answer(UploadOk(0))
        ELSE IF form.dataType = "patients" THEN suspend("upserting-patients")
        ELSE suspend("upserting")
  /\ UNCHANGED <<db, uuidStub, backend, apiKey, conversationHistory, files, usedIds, clearedIdle, serial>>

\* The upsert of all patients returns.
PatientsUpsertReturns(r, ok) ==
  /\ reqs[r].pc = "upserting-patients"
  /\ IF ok
     THEN /\ db' = [db EXCEPT !.patients = upsertAll(@, reqs[r].items)]
          /\ reqs' = [reqs EXCEPT ![r] =
               [@ EXCEPT !.pc = "done", !.resp = UploadOk(Len(reqs[r].items))]]
     ELSE /\ db' = db
          /\ reqs' = [reqs EXCEPT ![r] = [@ EXCEPT !.pc = "done", !.resp = DataError]]
  /\ UNCHANGED <<uuidStub, backend, apiKey, conversationHistory, files, usedIds, clearedIdle, serial>>

\* The upsert of one inventory item returns; after the last item the
\* handler answers.
UpsertReturns(r, outcome) ==
  /\ reqs[r].pc = "upserting"
  /\ LET item == Head(reqs[r].items)
         successCount == reqs[r].successCount + (IF outcome = "ok" THEN 1 ELSE 0)
         errors ==
           CASE outcome = "ok" -> reqs[r].errors
             [] outcome = "error" ->
                  Append(reqs[r].errors, item.drug_name \o <<": ">> \o UpsertErrorText)
             [] outcome = "throws" ->
                  Append(reqs[r].errors, item.drug_name \o <<": ">> \o UpsertThrowText)
         next == [reqs[r] EXCEPT !.items = Tail(@),
                                 !.successCount = successCount,
                                 !.errors = errors,
                                 !.attempts = Append(@, [drug_name |-> item.drug_name,
                                                         ok |-> outcome = "ok"])]
     IN /\ db' = IF outcome = "ok"
                 THEN [db EXCEPT !.inventory = upsert(@, item)]
                 ELSE db
        /\ reqs' = [reqs EXCEPT ![r] =
             IF next.items # <<>> THEN next
             ELSE IF successCount = 0 /\ errors # <<>>
             THEN [next EXCEPT !.pc = "done", !.resp = DataError]
             ELSE [next EXCEPT !.pc = "done", !.resp = UploadOk(successCount)]]
  /\ UNCHANGED <<uuidStub, backend, apiKey, conversationHistory, files, usedIds, clearedIdle, serial>>

DataNext ==
  \/ \E r \in Reqs : InventoryOptimization(r)
  \/ \E r \in Reqs, m \in Methods : AnalyticsInventoryFn(r, m)
  \/ \E r \in Reqs : GetInventoryAnalytics(r)
  \/ \E r \in Reqs, fails \in BOOLEAN : SelectReturns(r, fails)
  \/ \E r \in Reqs, m \in Methods, form \in UploadForms : UploadRequest(r, m, form)
  \/ \E r \in Reqs, ok \in BOOLEAN : PatientsUpsertReturns(r, ok)
  \/ \E r \in Reqs, o \in UpsertOutcomes : UpsertReturns(r, o)

\* A server or function started on tables that may already hold data; in
\* local mode the table is the mockInventory fixture, whatever its rows.
InitData ==
  /\ backend \in {"express", "netlify", "local"}
  /\ apiKey = TRUE
  /\ conversationHistory = <<>>
  /\ files = <<>>
  /\ usedIds = {}
  /\ reqs = [r \in Reqs |-> NewRequest]
  /\ clearedIdle = FALSE
  /\ serial = TRUE
  /\ uuidStub = FALSE
  /\ db \in {[inventory |-> i, patients |-> <<>>] : i \in Inventories}

DataSpec == InitData /\ [][DataNext]_vars

----------------------------------------------------------------------------
\* Properties

NoQueryInFlight == \A r \in Reqs : ~InFlight(r)

Accepted(r) == reqs[r].pc # "new"
Done(r) == reqs[r].pc = "done"

\* A message that is missing, empty or made of whitespace only.
Blank(body) ==
  \/ body.kind = "nomessage"
  \/ body.kind = "message" /\ \A i \in DOMAIN body.message : body.message[i] \in WhiteSpace

\* A POST to a chat endpoint whose body parsed.
ChatPost(r) ==
  /\ Accepted(r)
  /\ reqs[r].route \in {"chat", "ai-chat"}
  /\ reqs[r].method = "POST"
  /\ reqs[r].body.kind # "malformed"

\* C1: run one at a time, with no query in flight the history has an even
\* number of turns and every odd-position turn is a user turn.
C1_EvenTurnsUserFirst ==
  (serial /\ NoQueryInFlight) =>
    /\ Len(conversationHistory) % 2 = 0
    /\ \A i \in DOMAIN conversationHistory :
         i % 2 = 1 => conversationHistory[i].role = "user"

\* C2: a chat request with a missing, empty or whitespace-only message is
\* answered 4xx with an error field, calls neither processQuery nor the
\* external model, and leaves the conversation history as it was.
C2_BlankRejected ==
  /\ [](\A r \in Reqs :
          (ChatPost(r) /\ Blank(reqs[r].body)) =>
            /\ Done(r)
            /\ reqs[r].resp.status \in 400..499
            /\ reqs[r].resp.error
            /\ reqs[r].modelCalls = 0
            /\ reqs[r].fetches = 0
            /\ reqs[r].query = <<>>)
  /\ [][\A r \in Reqs :
          (reqs[r].pc = "new" /\ reqs'[r].pc # "new"
             /\ reqs'[r].route \in {"chat", "ai-chat"}
             /\ reqs'[r].method = "POST" /\ Blank(reqs'[r].body))
          => conversationHistory' = conversationHistory]_vars

C2_Witness ==
  \E r \in Reqs :
    /\ ChatPost(r) /\ Done(r)
    /\ reqs[r].body.kind = "message" /\ Len(reqs[r].body.message) > 1
    /\ Blank(reqs[r].body)
    /\ reqs[r].resp.status = 400

\* C3: a script file exists only while the execution that wrote it is in
\* flight: once executePythonCode has returned or thrown its script is gone,
\* and with no execution in flight the scripts directory is empty.
C3_ScriptRemoved ==
  \A id \in DOMAIN files :
    \E r \in Reqs : reqs[r].pc = "executing" /\ reqs[r].scriptId = id

C3_Witness ==
  /\ files = <<>>
  /\ \E r \in Reqs : Done(r) /\ reqs[r].failed = "execution"
  /\ \E r \in Reqs : reqs[r].results # Absent

\* C4: when code generation fails, processQuery resolves with non-empty
\* text, the chat endpoint answers action = null with that text, and a
\* completed (assistant) turn for the query is appended.
C4_GenerationFailureCompletesTurn ==
  [][\A r \in Reqs :
       (reqs[r].pc = "generating" /\ reqs'[r].pc = "done"
          /\ reqs'[r].failed = "generation" /\ reqs[r].route = "chat")
       => /\ reqs'[r].resp.text # Absent
          /\ reqs'[r].resp.text # Some(<<>>)
          /\ reqs'[r].resp.action = "null"
          /\ Len(conversationHistory') = Len(conversationHistory) + 1
          /\ conversationHistory'[Len(conversationHistory')].role = "assistant"]_vars

\* A request that failed at the transport level: wrong method, malformed
\* body, or no message.
TransportFault(r) ==
  \/ reqs[r].method \notin {"POST", "OPTIONS"}
  \/ reqs[r].body.kind = "malformed"
  \/ reqs[r].route \in {"chat", "ai-chat", "legacy-chat"} /\ Blank(reqs[r].body)

\* C5: every pipeline-internal failure is answered 200 (with action = null
\* where the response has an action, on the chat endpoints); only
\* transport-level faults get another status.
C5_FailuresAnswered200 ==
  \A r \in Reqs :
    Done(r) =>
      /\ reqs[r].failed # "none" =>
           /\ reqs[r].resp.status = 200
           /\ reqs[r].route \in {"chat", "ai-chat"} => reqs[r].resp.action = "null"
      /\ reqs[r].resp.status \notin {0, 200} => TransportFault(r)

CannedTexts ==
  { MockDefaultText, MockInventoryText, MockPatientText, MockCostText,
    MockPredictText }

\* C6: without the API credential every non-empty chat query is answered
\* from the canned responses, with no call to the external model.
C6_NoKeyFallback ==
  ~apiKey =>
    \A r \in Reqs :
      (ChatPost(r) /\ ~Blank(reqs[r].body)) =>
        /\ reqs[r].modelCalls = 0
        /\ Done(r)
        /\ reqs[r].resp.status = 200
        /\ \E t \in CannedTexts : reqs[r].resp.text = Some(t)

InventoryLetters ==
  << {"i","I"}, {"n","N"}, {"v","V"}, {"e","E"}, {"n","N"}, {"t","T"},
     {"o","O"}, {"r","R"}, {"y","Y"} >>

\* The word "inventory" occurs in the message, in any letter case.
MentionsInventory(message) ==
  \E i \in 0..(Len(message) - 9) :
    \A j \in 1..9 : message[i + j] \in InventoryLetters[j]

\* A response produced in fallback mode.
Fallback(r) ==
  /\ Done(r)
  /\ \/ reqs[r].route = "sendChatMessage"
     \/ reqs[r].route = "ai-chat" /\ ~apiKey /\ ChatPost(r) /\ ~Blank(reqs[r].body)

\* C7: in fallback mode a message mentioning "inventory" in any letter case
\* gets the low-stock text, and every fallback response has 5 suggestions
\* (and status 200 when it is an HTTP response).
C7_FallbackInventory ==
  \A r \in Reqs :
    Fallback(r) =>
      /\ Len(reqs[r].resp.suggestions) = 5
      /\ reqs[r].route = "ai-chat" => reqs[r].resp.status = 200
      /\ MentionsInventory(reqs[r].body.message) =>
           reqs[r].resp.text =
             Some(IF reqs[r].route = "ai-chat" THEN MockInventoryText
                  ELSE LocalInventoryText)

C7_Witness ==
  \E r \in Reqs :
    /\ Fallback(r)
    /\ reqs[r].route = "ai-chat"
    /\ MentionsInventory(reqs[r].body.message)
    /\ reqs[r].body.message # KwInventory
    /\ reqs[r].resp.text = Some(MockInventoryText)

\* DeepScanRxAgent.getConversationHistory
getConversationHistory == conversationHistory

\* C8: after a clear with no query in flight the history read back is
\* empty (until the next query is accepted), and the history only ever
\* shrinks in a step of the clear route.
C8_ClearEmpties ==
  /\ [](clearedIdle => getConversationHistory = <<>>)
  /\ [](\A r \in Reqs :
          (reqs[r].route = "history" /\ reqs[r].afterIdleClear)
            => reqs[r].resp.history = Some(<<>>))
  /\ [][Len(conversationHistory') < Len(conversationHistory) =>
          \E r \in Reqs : /\ reqs[r].pc = "new"
                          /\ reqs'[r].pc = "done"
                          /\ reqs'[r].route = "clear"]_vars

C8_Witness ==
  /\ clearedIdle
  /\ conversationHistory = <<>>
  /\ \E r \in Reqs : Done(r) /\ reqs[r].route \in {"chat", "report"}
                             /\ reqs[r].query # <<>>

\* C9: every assistant turn that carries generated code also carries the
\* execution output.
C9_CodeWithResults ==
  \A i \in DOMAIN conversationHistory :
    (conversationHistory[i].role = "assistant"
       /\ conversationHistory[i].pythonCode # Absent)
    => conversationHistory[i].results # Absent

C9_Witness ==
  \E i \in DOMAIN conversationHistory :
    /\ conversationHistory[i].role = "assistant"
    /\ conversationHistory[i].pythonCode # Absent
    /\ conversationHistory[i].results # Absent

\* C10: an execution, also of a script that never exits on its own,
\* eventually returns (a result or a failure) to processQuery.
C10_ExecutionReturns ==
  \A r \in Reqs : (reqs[r].pc = "executing") ~> (reqs[r].pc # "executing")

\* C11: two concurrent executions forced onto one script identifier never
\* share the script file: the collision is rejected, no cleanup removes a
\* file another call is still executing, and no run that exited normally
\* is turned into a failure by the other call's cleanup.
C11_CollisionRejected ==
  /\ \A r, q \in Reqs :
       (r # q /\ reqs[r].pc = "executing" /\ reqs[q].pc = "executing")
         => reqs[r].scriptId # reqs[q].scriptId
  /\ \A r \in Reqs : reqs[r].pc = "executing" => reqs[r].scriptId \in DOMAIN files
  /\ \A r \in Reqs :
       Done(r) => reqs[r].resp.text # Some(ErrorResult(UnlinkError).response)

\* The caller a request comes from.  Requests carry no caller identity
\* that the server reads; the two callers take turns.
Caller(r) == IF r % 2 = 1 THEN "A" ELSE "B"

\* The queries a caller has submitted so far.
QueriesOf(caller) ==
  {reqs[q].query : q \in {q \in Reqs : Caller(q) = caller /\ reqs[q].query # <<>>}}

\* C12: sessions are independent: the turns returned to a caller's history
\* request are turns of that caller's own queries, and the context quoted in
\* a caller's prompt holds no query of another caller.
C12_SessionsIndependent ==
  \A r \in Reqs :
    /\ (Done(r) /\ reqs[r].route = "history") =>
         \A i \in DOMAIN reqs[r].resp.history[1] :
           reqs[r].resp.history[1][i].role = "user" =>
             reqs[r].resp.history[1][i].content \in QueriesOf(Caller(r))
    /\ \A q \in Reqs :
         (Caller(q) # Caller(r) /\ reqs[q].query # <<>>
            /\ reqs[q].query \notin QueriesOf(Caller(r)))
         => ~includes(reqs[r].context, reqs[q].query)

IsPrefix(s, t) == Len(s) <= Len(t) /\ SubSeq(t, 1, Len(s)) = s

\* A step of POST /api/assistant/clear.
ClearStep ==
  \E r \in Reqs : reqs[r].pc = "new" /\ reqs'[r].route = "clear"

\* C13: between clears the history is append-only: across every step other
\* than a clear, the previous turn sequence is a prefix of the new one.
C13_AppendOnly ==
  [][~ClearStep => IsPrefix(conversationHistory, conversationHistory')]_vars

C13_Witness ==
  /\ Len(conversationHistory) >= 2
  /\ conversationHistory[1].role = "user"
  /\ conversationHistory[2].role = "assistant"

\* The text of a captured output: its lines, a newline between each two.
RECURSIVE capturedText(_)
capturedText(lines) ==
  IF lines = <<>> THEN <<>>
  ELSE IF Len(lines) = 1 THEN lines[1]
  ELSE capturedText(SubSeq(lines, 1, Len(lines) - 1)) \o <<"\n">> \o lines[Len(lines)]

\* C14: when the script exits normally executePythonCode returns exactly the
\* captured output, and the assistant turn and the endpoint's
\* analysisResults both carry that text.
C14_ResultsAreStdout ==
  /\ [](\A r \in Reqs :
          (reqs[r].stdout # Absent /\ reqs[r].pc \in {"synthesizing", "done"}) =>
            reqs[r].results = Some(capturedText(reqs[r].stdout[1])))
  /\ [][\A r \in Reqs :
          (reqs[r].pc = "synthesizing" /\ reqs'[r].pc = "done"
             /\ reqs'[r].failed = "none" /\ reqs[r].stdout # Absent)
          => /\ conversationHistory'[Len(conversationHistory')].results =
                  Some(capturedText(reqs[r].stdout[1]))
             /\ reqs'[r].resp.analysisResults =
                  Some(capturedText(reqs[r].stdout[1]))]_vars

C14_Witness ==
  \E r \in Reqs :
    /\ Done(r) /\ reqs[r].failed = "none"
    /\ reqs[r].stdout # Absent /\ Len(reqs[r].stdout[1]) > 1
    /\ reqs[r].resp.analysisResults = Some(<<"{\"ok\":true}", "\n", "done">>)
    /\ conversationHistory # <<>>
    /\ conversationHistory[Len(conversationHistory)].results =
         Some(<<"{\"ok\":true}", "\n", "done">>)

\* C15: a request to the serverless chat endpoint whose body is not valid
\* JSON, or whose method is neither POST nor OPTIONS, is answered 4xx and
\* never reaches the pipeline: no model call and no data fetch.
C15_TransportFaultRejected ==
  \A r \in Reqs :
    (Done(r) /\ reqs[r].route = "ai-chat"
       /\ (reqs[r].body.kind = "malformed" \/ reqs[r].method \notin {"POST", "OPTIONS"}))
    => /\ reqs[r].resp.status \in 400..499
       /\ reqs[r].modelCalls = 0
       /\ reqs[r].fetches = 0

\* The last turns of a history, at most four, oldest first, one line each.
recentWindow(history) ==
  LET n == IF Len(history) < 4 THEN Len(history) ELSE 4
  IN capturedText([i \in 1..n |->
       <<history[Len(history) - n + i].role, ": ">>
         \o history[Len(history) - n + i].content])

\* C16: the turns quoted in the generation and synthesis prompts are the
\* last four turns of the history, oldest first, and all of them when there
\* are fewer than four.
C16_RecentWindow ==
  [][\A r \in Reqs :
       /\ (reqs[r].pc = "new" /\ reqs'[r].pc = "generating")
            => reqs'[r].context = recentWindow(conversationHistory')
       /\ (reqs[r].pc = "executing" /\ reqs'[r].pc = "synthesizing")
            => reqs'[r].context = recentWindow(conversationHistory)]_vars

C16_Witness ==
  /\ Len(conversationHistory) > 4
  /\ \E r \in Reqs :
       /\ reqs[r].pc = "synthesizing"
       /\ reqs[r].context = recentWindow(conversationHistory)
       /\ reqs[r].context # <<>>
  /\ \E q \in Reqs : Done(q) /\ reqs[q].failed = "none" /\ reqs[q].route = "chat"

\* C18: when code generation fails, the orchestrator appends an assistant
\* turn holding the fallback response, with no code and no execution
\* output, and no script is written or executed.
C18_GenerationFailureTurn ==
  [][\A r \in Reqs :
       (reqs[r].pc = "generating" /\ reqs'[r].pc = "done"
          /\ reqs'[r].failed = "generation")
       => /\ files' = files
          /\ reqs'[r].scriptId = 0
          /\ reqs'[r].resp.text # Absent
          /\ conversationHistory' =
               push(conversationHistory,
                    [role |-> "assistant", content |-> reqs'[r].resp.text[1],
                     pythonCode |-> Absent, results |-> Absent])]_vars

\* C19: once execution has started synthesis always follows, whether the
\* run succeeded or failed: the step that ends an execution sends the
\* synthesis request.
C19_SynthesisFollowsExecution ==
  [][\A r \in Reqs :
       (reqs[r].pc = "executing" /\ reqs'[r].pc # "executing")
       => /\ reqs'[r].pc = "synthesizing"
          /\ reqs'[r].modelCalls = reqs[r].modelCalls + 1]_vars

\* C20: when synthesis fails after the execution produced output, an
\* assistant turn is appended whose text is the raw execution output (or
\* the text the caller is answered with), with the code and the results
\* attached, and that turn is what the caller gets.
C20_SynthesisFailureTurn ==
  [][\A r \in Reqs :
       (reqs[r].pc = "synthesizing" /\ reqs'[r].pc = "done"
          /\ reqs'[r].failed = "synthesis")
       => /\ Len(conversationHistory') = Len(conversationHistory) + 1
          /\ LET turn == conversationHistory'[Len(conversationHistory')]
             IN /\ turn.role = "assistant"
                /\ turn.content \in {reqs[r].results[1], reqs'[r].resp.text[1]}
                /\ turn.pythonCode = reqs[r].pythonCode
                /\ turn.results = reqs[r].results
          /\ reqs'[r].resp.pythonCode = reqs[r].pythonCode
          /\ reqs'[r].resp.analysisResults = reqs[r].results]_vars

\* C21: every accepted query reaches Done: provided each model call returns
\* and each script exits or fails to run, from some point on no query is
\* left in flight (a request is new, in flight or done, and never leaves
\* done); the route answers once, an answered request is never touched again.
C21_QueryCompletes ==
  /\ <>[](\A r \in Reqs : InFlight(r) => reqs[r].hang)
  /\ [][\A r \in Reqs : Done(r) => reqs'[r] = reqs[r]]_vars

C21_Witness ==
  \E r \in Reqs :
    /\ Done(r) /\ reqs[r].route = "chat" /\ reqs[r].failed = "none"
    /\ ~reqs[r].hang /\ reqs[r].modelCalls > 1
    /\ reqs[r].resp.status = 200

\* C22: appends of different queries never interleave: as long as no query
\* has failed, a user turn that is not the last turn of the history is
\* followed by an assistant turn, also when two queries are in flight at
\* the same time.
C22_NoInterleavedAppends ==
  (\A r \in Reqs : reqs[r].failed = "none") =>
    \A i \in 1..(Len(conversationHistory) - 1) :
      conversationHistory[i].role = "user" =>
        conversationHistory[i + 1].role = "assistant"

\* The texts generatePythonCode can return.
GeneratedTexts ==
  {trim(o.text) : o \in {o \in GenerationOutcomes : completionError(o) = Absent}}

\* C23: within one query the stages run in the order generate, execute,
\* synthesize, each at most once: the script that runs holds exactly the
\* text generation returned, and synthesis starts only after the run has
\* finished and its script is gone.
C23_StagesInOrder ==
  /\ [](\A r \in Reqs :
          /\ reqs[r].pc = "generating" =>
               /\ reqs[r].modelCalls = 1
               /\ reqs[r].pythonCode = Absent /\ reqs[r].results = Absent
          /\ reqs[r].pc = "executing" =>
               /\ reqs[r].modelCalls = 1
               /\ reqs[r].pythonCode # Absent /\ reqs[r].results = Absent
               /\ reqs[r].pythonCode[1] \in GeneratedTexts
               /\ reqs[r].scriptId \in DOMAIN files
               /\ files[reqs[r].scriptId] = reqs[r].pythonCode[1]
          /\ reqs[r].pc = "synthesizing" =>
               /\ reqs[r].modelCalls = 2
               /\ reqs[r].pythonCode # Absent /\ reqs[r].results # Absent
               /\ reqs[r].scriptId \notin DOMAIN files)
  /\ [][\A r \in Reqs :
          (reqs'[r].route \in {"chat", "report"} /\ reqs'[r].pc # reqs[r].pc) =>
            << reqs[r].pc, reqs'[r].pc >> \in
              { <<"new", "generating">>, <<"new", "done">>,
                <<"generating", "executing">>, <<"generating", "done">>,
                <<"executing", "synthesizing">>, <<"executing", "done">>,
                <<"synthesizing", "done">> }]_vars

C23_Witness ==
  \E r \in Reqs :
    /\ reqs[r].pc = "synthesizing"
    /\ reqs[r].pythonCode = Some(<<"import sqlite3; print(1)">>)
    /\ reqs[r].results # Absent
    /\ \E q \in Reqs : reqs[q].pc = "executing"

\* C24: a report request runs the chat pipeline with a fixed non-empty
\* query: its user turn and, after generate, execute and synthesize, its
\* assistant turn are appended to the one history, which is what a later
\* prompt quotes and what the history route returns.
C24_ReportUsesPipeline ==
  /\ [][\A r \in Reqs :
          /\ (reqs[r].pc = "new" /\ reqs'[r].route = "report") =>
               /\ reqs'[r].pc = "generating"
               /\ reqs'[r].query # <<>>
               /\ conversationHistory' =
                    conversationHistory \o
                      << [role |-> "user", content |-> reqs'[r].query,
                          pythonCode |-> Absent, results |-> Absent] >>
               /\ includes(reqs'[r].context, reqs'[r].query)
          /\ (reqs[r].route = "report" /\ reqs[r].pc = "synthesizing"
                /\ reqs'[r].pc = "done" /\ reqs'[r].failed = "none") =>
               /\ reqs[r].modelCalls = 2
               /\ Len(conversationHistory') = Len(conversationHistory) + 1
               /\ conversationHistory'[Len(conversationHistory')].role = "assistant"
               /\ Some(conversationHistory'[Len(conversationHistory')].content)
                    = reqs'[r].resp.text
          /\ (reqs[r].pc = "new" /\ reqs'[r].route = "history") =>
               reqs'[r].resp.history = Some(conversationHistory)]_vars

C24_Witness ==
  \E r, q \in Reqs :
    /\ Done(r) /\ reqs[r].route = "report" /\ reqs[r].failed = "none"
    /\ Done(q) /\ reqs[q].route = "history"
    /\ Len(reqs[q].resp.history[1]) = 2
    /\ reqs[q].resp.history[1][1].content = reqs[r].query
    /\ reqs[q].resp.history[1][2].role = "assistant"

\* A step in which a stage of request r fails and processQuery resolves.
StageFails(r) ==
  /\ InFlight(r)
  /\ reqs'[r].pc = "done"
  /\ reqs'[r].failed # "none"

\* C25: a processQuery call in which a stage fails changes the history by
\* its one appended user turn only: the failing step leaves the history as
\* it is, and the result is flagged an error and carries neither code nor
\* results.
C25_FailureFrame ==
  [][\A r \in Reqs :
       /\ (reqs[r].pc = "new" /\ reqs'[r].pc = "generating") =>
            /\ Len(conversationHistory') = Len(conversationHistory) + 1
            /\ SubSeq(conversationHistory', 1, Len(conversationHistory))
                 = conversationHistory
            /\ conversationHistory'[Len(conversationHistory')].role = "user"
       /\ StageFails(r) =>
            /\ conversationHistory' = conversationHistory
            /\ reqs'[r].resp.status = 200
            /\ reqs'[r].resp.pythonCode = Absent
            /\ reqs'[r].resp.analysisResults = Absent
            /\ reqs'[r].resp.text # Absent
            /\ reqs[r].route = "chat" => reqs'[r].resp.action = "null"]_vars

C25_Witness ==
  \E r \in Reqs :
    /\ Done(r) /\ reqs[r].failed = "synthesis" /\ reqs[r].route = "chat"
    /\ reqs[r].pythonCode # Absent /\ reqs[r].results # Absent
    /\ reqs[r].resp.pythonCode = Absent
    /\ Len(conversationHistory) = 1
    /\ conversationHistory[1] = [role |-> "user", content |-> reqs[r].query,
                                 pythonCode |-> Absent, results |-> Absent]

\* C26: under every interleaving of clears with queries in flight, an
\* assistant turn in the history is immediately preceded by a user turn;
\* the history never starts with an assistant turn.
C26_AssistantAfterUser ==
  \A i \in DOMAIN conversationHistory :
    conversationHistory[i].role = "assistant" =>
      /\ i > 1
      /\ conversationHistory[i - 1].role = "user"

Keywords == << KwInventory, KwPatient, KwCost, KwPredict >>

\* The upper-case form of a lower-case letter.
Capital(c) == UpperLetters[CHOOSE i \in DOMAIN LowerLetters : LowerLetters[i] = c]

\* The word occurs in the message, each letter in either case.
Mentions(message, word) ==
  \E i \in 0..(Len(message) - Len(word)) :
    \A j \in 1..Len(word) : message[i + j] \in {word[j], Capital(word[j])}

\* The position in the priority order of the first keyword the message
\* mentions, or 0 when it mentions none.
FirstKeyword(message) ==
  LET hits == {k \in DOMAIN Keywords : Mentions(message, Keywords[k])}
  IN IF hits = {} THEN 0 ELSE CHOOSE k \in hits : \A h \in hits : k <= h

\* The canned texts of each keyword-matching handler, in priority order.
CannedByRoute(route) ==
  CASE route = "ai-chat" ->
         << MockInventoryText, MockPatientText, MockCostText, MockPredictText >>
    [] route = "sendChatMessage" ->
         << LocalInventoryText, LocalPatientText, LocalCostText, LocalPredictText >>
    [] route = "legacy-chat" ->
         << MockInventoryText, MockPatientText, LegacyCostText, MockPredictText >>

DefaultByRoute(route) ==
  IF route = "sendChatMessage" THEN LocalDefaultText ELSE MockDefaultText

\* A request answered by keyword matching.
KeywordAnswered(r) ==
  \/ Fallback(r)
  \/ Done(r) /\ reqs[r].route = "legacy-chat" /\ reqs[r].body.kind = "message"

\* C27: keyword matching answers with the text of the first keyword, in the
\* order inventory, patient, cost, predict, that occurs in the message in
\* any letter case, and with the default text when none occurs; the text
\* is fixed by the handler and the message alone.
C27_KeywordPriority ==
  \A r \in Reqs :
    KeywordAnswered(r) =>
      reqs[r].resp.text =
        Some(IF FirstKeyword(reqs[r].body.message) = 0
             THEN DefaultByRoute(reqs[r].route)
             ELSE CannedByRoute(reqs[r].route)[FirstKeyword(reqs[r].body.message)])

C27_Witness ==
  \E r \in Reqs :
    /\ KeywordAnswered(r)
    /\ Mentions(reqs[r].body.message, KwCost)
    /\ Mentions(reqs[r].body.message, KwPatient)
    /\ reqs[r].body.message[1] = "c"
    /\ reqs[r].resp.text \in {Some(MockPatientText), Some(LocalPatientText)}

\* A request answered by the inventory optimization of the Express server
\* or of the serverless function.
Optimized(r) ==
  /\ Done(r)
  /\ reqs[r].route \in {"inventory-optimization", "analytics-inventory"}
  /\ reqs[r].resp.analytics # Absent

\* C28: inventory optimization puts every item in exactly one of low stock
\* (quantity < 20), over stock (quantity > 500) and normal stock, so the
\* three counts add up to total_items; there is one recommendation per
\* low-stock item, with recommended = max(2 * quantity, 50) and priority
\* high exactly when quantity < 10.
C28_InventoryClassification ==
  \A r \in Reqs :
    Optimized(r) =>
      LET a == reqs[r].resp.analytics[1]
          Low(item) == item.quantity < 20
          Over(item) == item.quantity > 500
          Normal(item) == ~Low(item) /\ ~Over(item)
          CountRows(Test(_)) ==
            Cardinality({k \in DOMAIN db.inventory : Test(db.inventory[k])})
      IN /\ a.summary.total_items = Len(db.inventory)
         /\ a.summary.low_stock = CountRows(Low)
         /\ a.summary.over_stock = CountRows(Over)
         /\ a.summary.normal_stock = CountRows(Normal)
         /\ a.summary.low_stock + a.summary.over_stock + a.summary.normal_stock
              = a.summary.total_items
         /\ Len(a.recommendations) = CountRows(Low)
         /\ \A k \in DOMAIN db.inventory :
              Low(db.inventory[k]) =>
                Cardinality({j \in DOMAIN a.recommendations :
                               /\ a.recommendations[j].drug = db.inventory[k].drug_name
                               /\ a.recommendations[j].current = db.inventory[k].quantity})
                  = 1
         /\ \A j \in DOMAIN a.recommendations :
              LET rec == a.recommendations[j]
              IN /\ rec.recommended >= 2 * rec.current
                 /\ rec.recommended >= 50
                 /\ rec.recommended \in {2 * rec.current, 50}
                 /\ (rec.priority = "high") <=> (rec.current < 10)
                 /\ rec.priority \in {"high", "medium"}

C28_Witness ==
  \E r \in Reqs :
    /\ Optimized(r)
    /\ reqs[r].resp.analytics[1].summary.total_items = 3
    /\ reqs[r].resp.analytics[1].summary.over_stock = 1
    /\ reqs[r].resp.analytics[1].summary.normal_stock = 1
    /\ Len(reqs[r].resp.analytics[1].recommendations) = 1
    /\ reqs[r].resp.analytics[1].recommendations[1].recommended = 50

\* C29: for every inventory, the empty one included, the efficiency_score
\* of an inventory optimization response is an integer between 0 and 100.
C29_EfficiencyScoreRange ==
  \A r \in Reqs :
    (Done(r) /\ reqs[r].resp.analytics # Absent) =>
      /\ ~reqs[r].resp.analytics[1].efficiency_score.isNaN
      /\ reqs[r].resp.analytics[1].efficiency_score.value \in 0..100

\* The upserts of an inventory upload that succeeded.
Succeeded(r) == {k \in DOMAIN reqs[r].attempts : reqs[r].attempts[k].ok}

\* The rows of an upload whose drug name is not empty or blank.
Named(r) ==
  {k \in DOMAIN reqs[r].body.rows :
     \E i \in DOMAIN reqs[r].body.rows[k].drug_name :
       reqs[r].body.rows[k].drug_name[i] \notin WhiteSpace}

\* C30: an inventory upload reports as recordsProcessed the number of
\* items whose upsert succeeded: rows without a drug name are never
\* upserted, every other row is attempted whatever happened to the rows
\* before it, and the request fails (500) exactly when some upsert failed
\* and none succeeded; otherwise it is answered 200.
C30_UploadCounts ==
  \A r \in Reqs :
    (Done(r) /\ reqs[r].route = "upload" /\ reqs[r].method = "POST"
       /\ reqs[r].body.kind = "form" /\ reqs[r].body.dataType = "inventory"
       /\ reqs[r].body.rows # <<>>) =>
      /\ Len(reqs[r].attempts) = Cardinality(Named(r))
      /\ \A k \in DOMAIN reqs[r].attempts :
           \E i \in DOMAIN reqs[r].attempts[k].drug_name :
             reqs[r].attempts[k].drug_name[i] \notin WhiteSpace
      /\ reqs[r].resp.status \in {200, 500}
      /\ (reqs[r].resp.status = 500) <=>
           (Succeeded(r) = {} /\ reqs[r].attempts # <<>>)
      /\ reqs[r].resp.status = 200 =>
           reqs[r].resp.recordsProcessed = Some(Cardinality(Succeeded(r)))

C30_Witness ==
  \E r \in Reqs :
    /\ Done(r) /\ reqs[r].route = "upload"
    /\ Len(reqs[r].body.rows) = 4
    /\ Len(reqs[r].attempts) = 2
    /\ ~reqs[r].attempts[1].ok /\ reqs[r].attempts[2].ok
    /\ reqs[r].resp.status = 200
    /\ reqs[r].resp.recordsProcessed = Some(1)

====
